---- MODULE Spec2Model ----
(***************************************************************************)
(* Model of TMDA/Deliver.py: the delivery-instruction parser, deliver(),   *)
(* the mbox/mmdf appenders and the maildir writer.                         *)
(*                                                                         *)
(* Strings are sequences of one-character strings.  The source is valid    *)
(* under both Python 2.6+ and Python 3; the two interpreters differ in how *)
(* the bytes read from a file opened 'rb+' compare with a str literal and  *)
(* in whether OSError is caught by "except IOError".  The interpreter is   *)
(* the variable py3, chosen once in Init.                                  *)
(***************************************************************************)
EXTENDS Integers, Sequences, FiniteSets, TLC

\* ------------------------------------------------------------------ bounds
MaxLen == 3
MaxFaults == 2

\* --------------------------------------------------------------- strings
NL == "\n"
SOH == "^A"
SP == " "

Alphabet == {"|", "&", "a", ":", "/", "~", SP, "_"}

Filter_ == <<"_", "f", "i", "l", "t", "e", "r", "_">>
Stdout == <<"s", "t", "d", "o", "u", "t">>
HOME == <<"/", "h">>

RECURSIVE SeqsUpTo(_)
SeqsUpTo(n) ==
    IF n = 0 THEN {<<>>}
    ELSE LET S == SeqsUpTo(n - 1)
         IN  S \cup {Append(s, c) : s \in {t \in S : Len(t) = n - 1}, c \in Alphabet}

Options == SeqsUpTo(MaxLen) \cup {Filter_}

isalnum(c) == c \in {"a", "b", "f", "i", "l", "t", "e", "r", "h", "F", "o", "m", "N"}

Drop(s, n) == IF n >= Len(s) THEN <<>> ELSE SubSeq(s, n + 1, Len(s))
Take(s, n) == IF n >= Len(s) THEN s ELSE SubSeq(s, 1, n)

RECURSIVE lstripc(_, _)
lstripc(s, cs) == IF s # <<>> /\ Head(s) \in cs THEN lstripc(Tail(s), cs) ELSE s

RECURSIVE rstripc(_, _)
rstripc(s, cs) ==
    IF s # <<>> /\ s[Len(s)] \in cs THEN rstripc(SubSeq(s, 1, Len(s) - 1), cs) ELSE s

\* str.strip(chars): characters of the set are removed from BOTH ends.
stripc(s, cs) == rstripc(lstripc(s, cs), cs)

\* str.strip(): whitespace removed from both ends.
strip(s) == stripc(s, {SP, NL})

\* str.find('/', 1): first index >= 1 (0-based) holding '/', else -1.
FindSlash(s) ==
    LET I == {i \in 2..Len(s) : s[i] = "/"}
    IN  IF I = {} THEN 0 - 1 ELSE (CHOOSE i \in I : \A j \in I : i <= j) - 1

\* os.path.expanduser: "~" and "~/..." take the home directory; "~name" with
\* a name the password database does not know is returned unchanged.
expanduser(path) ==
    IF path = <<>> \/ Head(path) # "~" THEN path
    ELSE LET f == FindSlash(path)
             i == IF f < 0 THEN Len(path) ELSE f
         IN  IF i = 1
             THEN LET r == rstripc(HOME, {"/"}) \o Drop(path, i)
                  IN  IF r = <<>> THEN <<"/">> ELSE r
             ELSE path

\* ---------------------------------------------------------------- parser
None == "None"
IndexError == <<"IndexError", <<>>>>

rule5_maildir(option) == <<"maildir", expanduser(option)>>

\* Second slash-or-tilde rule (trailing slash).
rule5(option) == <<"mbox", expanduser(option)>>

_get_instructions(option) ==
    IF option = <<>> THEN IndexError
    ELSE LET first == option[1]
             last == option[Len(option)]
         IN  IF first = "|" THEN <<"program", strip(Drop(option, 1))>>
             ELSE IF first = "&" \/ isalnum(first)
                  THEN <<"forward", strip(stripc(option, {"&"}))>>
             ELSE IF first = ":" THEN <<"mmdf", expanduser(strip(Drop(option, 1)))>>
             ELSE IF first \in {"/", "~"} /\ last # "/"
                  THEN <<"mbox", expanduser(option)>>
             ELSE IF first \in {"/", "~"} /\ last = "/" THEN rule5(option)
             ELSE IF option = Filter_ THEN <<"filter", Stdout>>
             ELSE <<None, <<>>>>

\* get_instructions: the pair, or the exception the call ends with
\* (IndexError from option[0] on the empty string, DeliveryError for None).
get_instructions(o) ==
    LET r == _get_instructions(o)
    IN  IF r = IndexError THEN [exc |-> "IndexError", kind |-> None, dest |-> <<>>]
        ELSE IF r[1] = None THEN [exc |-> "DeliveryError", kind |-> None, dest |-> o]
        ELSE [exc |-> "none", kind |-> r[1], dest |-> r[2]]

\* ------------------------------------------------------------ filesystem
Procs == {1, 2}
NoProc == 0

Box == <<"/", "b">>
Lnk == <<"/", "l">>
Gone == <<"/", "g">>
Mdir == <<"/", "d", "/">>

\* os.path.exists follows links: Lnk points at Box, Gone is absent, Mdir is
\* a maildir directory.
ExistingPaths == {Box, Lnk, Mdir}
SymlinkPaths == {Lnk}
Directories == {Mdir}

exists(path) == path \in ExistingPaths

islink_skipped(path) == FALSE

islink(path) == path \in SymlinkPaths

\* open(path, 'rb+') of a directory fails with EISDIR.
isdir(path) == path \in Directories

DeliverOptions ==
    {Box, <<":">> \o Box, Lnk, <<":">> \o Gone, Mdir,
     <<"|", "a">>, <<"&", "a">>, Filter_, <<>>}

FromLine == <<"F", "r", "o", "m", SP, NL>>
MboxMagic == <<"F", "r", "o", "m", SP>>
MmdfMagic == <<SOH, SOH, SOH, SOH, NL>>

FileInits == {<<>>, MboxMagic \o <<NL, NL>>, MmdfMagic \o MmdfMagic, <<"N", NL>>}

\* The message bodies: the second one has a line that begins with "From ".
Body(p) == IF p = 1 THEN <<"a">> ELSE <<"F", "r", "o", "m", SP, NL>>

\* Body-line escaping: a line that begins with "From " gets a ">" in front.
RECURSIVE MangleFrom(_, _)
MangleFrom(s, bol) ==
    IF s = <<>> THEN <<>>
    ELSE IF bol /\ Take(s, 5) = MboxMagic
         THEN <<">">> \o MboxMagic \o MangleFrom(Drop(s, 5), FALSE)
         ELSE <<Head(s)>> \o MangleFrom(Tail(s), Head(s) = NL)

msg_as_string(body, mangle_from_, unixfrom) ==
    (IF unixfrom THEN FromLine ELSE <<>>)
        \o (IF mangle_from_ THEN MangleFrom(body, TRUE) ELSE body)

\* file.readline(): up to and including the first newline.
readline(f) ==
    LET I == {i \in 1..Len(f) : f[i] = NL}
    IN  IF I = {} THEN f ELSE Take(f, CHOOSE i \in I : \A j \in I : i <= j)

Magic(fmt) == IF fmt = "mmdf" THEN MmdfMagic ELSE MboxMagic

\* The sequence of fp.write() calls of one append, in order.
Chunks(fmt, message) ==
    LET m == IF message[Len(message)] # NL THEN Append(message, NL) ELSE message
    IN  IF fmt = "mmdf" THEN <<MmdfMagic, m, <<NL>>, MmdfMagic>> ELSE <<m, <<NL>>>>

RECURSIVE Concat(_)
Concat(ss) == IF ss = <<>> THEN <<>> ELSE Head(ss) \o Concat(Tail(ss))

WriteAt_start(f, pos, data) == data \o Drop(f, Len(data))

Pad(f, n) == IF Len(f) >= n THEN Take(f, n) ELSE f \o [i \in 1..(n - Len(f)) |-> "0"]

\* write(2) of data at file offset pos.
WriteAt(f, pos, data) == Pad(f, pos) \o data \o Drop(f, pos + Len(data))

truncate_keep(f, n) == f

\* ftruncate(2) to length n.
truncate(f, n) == Pad(f, n)

VARIABLES option, ppc, presult,
          py3, purged, file, atime, mtime, clock, lockHolder, faults,
          pc, opt, boxtype, dest, message, fp, pos, orig_length,
          status_old, status_new, todo, exc, err,
          failAt, hfail, snap, retFile, file0, appendMtime,
          isMaildir, tmpdir, newdir, inodes, wall, calls,
          mpc, now, fname_tmp, fname_new, alarm, mexc, merr

pvars == <<option, ppc, presult>>
fsvars == <<file, atime, mtime, clock, lockHolder>>
lvars == <<opt, boxtype, dest, message, fp, pos, orig_length, status_old,
           status_new, todo, exc, err>>
gvars == <<failAt, hfail, snap, retFile>>
env == <<py3, file0, purged>>
dvars == <<env, appendMtime, fsvars, faults, pc, lvars, gvars>>
mfs == <<isMaildir, tmpdir, newdir, inodes, wall>>
mloc == <<calls, mpc, now, fname_tmp, fname_new, alarm, mexc, merr>>
mvars == <<mfs, mloc>>
vars == <<pvars, dvars, mvars>>

Upd(f, p, v) == [f EXCEPT ![p] = v]

\* ----------------------------------------------------------- parser spec
ParseIdle ==
    /\ option = <<>>
    /\ ppc = "idle"
    /\ presult = [exc |-> "pending", kind |-> None, dest |-> <<>>]

DeliverIdle ==
    /\ purged = [p \in Procs |-> FALSE]
    /\ file0 = <<>> /\ appendMtime = 0
    /\ file = <<>> /\ atime = 0 /\ mtime = 0 /\ clock = 1
    /\ lockHolder = NoProc /\ faults = 0
    /\ pc = [p \in Procs |-> "idle"]
    /\ opt = [p \in Procs |-> <<>>]
    /\ boxtype = [p \in Procs |-> None]
    /\ dest = [p \in Procs |-> <<>>]
    /\ message = [p \in Procs |-> <<>>]
    /\ fp = [p \in Procs |-> "unbound"]
    /\ pos = [p \in Procs |-> 0]
    /\ orig_length = [p \in Procs |-> 0 - 1]
    /\ status_old = [p \in Procs |-> <<0, 0>>]
    /\ status_new = [p \in Procs |-> <<0, 0>>]
    /\ todo = [p \in Procs |-> <<>>]
    /\ exc = [p \in Procs |-> "none"]
    /\ err = [p \in Procs |-> "none"]
    /\ failAt = [p \in Procs |-> "none"]
    /\ hfail = [p \in Procs |-> "none"]
    /\ snap = [p \in Procs |-> <<>>]
    /\ retFile = [p \in Procs |-> <<>>]

MaildirIdle ==
    /\ isMaildir = TRUE
    /\ tmpdir = {} /\ newdir = {}
    /\ inodes = <<>>
    /\ wall = 1
    /\ calls = 0
    /\ mpc = [p \in Procs |-> "idle"]
    /\ now = [p \in Procs |-> 0]
    /\ fname_tmp = [p \in Procs |-> <<>>]
    /\ fname_new = [p \in Procs |-> <<>>]
    /\ alarm = [p \in Procs |-> FALSE]
    /\ mexc = [p \in Procs |-> "none"]
    /\ merr = [p \in Procs |-> "none"]

ParseInit ==
    /\ option \in Options
    /\ ppc = "call"
    /\ presult = [exc |-> "pending", kind |-> None, dest |-> <<>>]
    /\ py3 = FALSE
    /\ DeliverIdle
    /\ MaildirIdle

ParseCall ==
    /\ ppc = "call"
    /\ presult' = get_instructions(option)
    /\ ppc' = "done"
    /\ UNCHANGED <<option, dvars, mvars>>

ParseNext == ParseCall

SpecParse == ParseInit /\ [][ParseNext]_vars

\* ----------------------------------------------- deliver() and appenders
\* Control transfer of one step: every delivery action uses exactly one of
\* Goto, Finish, Throw, Swallow for <<pc, exc, err, retFile, failAt, faults>>.
Goto(p, l) ==
    /\ pc' = Upd(pc, p, l)
    /\ UNCHANGED <<exc, err, retFile, failAt, faults>>

\* retFile[p] records the mailbox content at the moment p's call gave up its
\* lock, or ended while still holding it.
Leave(p, f) == retFile' = IF lockHolder = p THEN Upd(retFile, p, f) ELSE retFile

\* A step that releases the lock.
GotoRel(p, l) ==
    /\ pc' = Upd(pc, p, l)
    /\ retFile' = Upd(retFile, p, file)
    /\ UNCHANGED <<exc, err, failAt, faults>>

\* The call ends: normally (e = "none") or by raising e; f is the mailbox
\* content at that moment.
Finish(p, e, cause, f) ==
    /\ pc' = Upd(pc, p, "done")
    /\ exc' = Upd(exc, p, e)
    /\ err' = Upd(err, p, cause)
    /\ Leave(p, f)
    /\ UNCHANGED <<failAt, faults>>

\* "except IOError" catches OSError only where OSError is IOError.
Caught(kind) == kind = "IOError" \/ py3

\* A statement of the try body raises kind at step.
Throw(p, step, kind, f) ==
    /\ failAt' = Upd(failAt, p, step)
    /\ faults' = faults + 1
    /\ IF Caught(kind)
       THEN /\ pc' = Upd(pc, p, "h_truncate")
            /\ UNCHANGED <<exc, err, retFile>>
       ELSE /\ pc' = Upd(pc, p, "done")
            /\ exc' = Upd(exc, p, kind)
            /\ err' = Upd(err, p, step)
            /\ Leave(p, f)

\* A statement of the rollback block raises: "except: pass", then the
\* DeliveryError is raised.
Swallow(p, f, injected) ==
    /\ pc' = Upd(pc, p, "done")
    /\ exc' = Upd(exc, p, "DeliveryError")
    /\ err' = Upd(err, p, "Failure writing message")
    /\ Leave(p, f)
    /\ faults' = faults + injected
    /\ UNCHANGED failAt

Released(h, p) == IF h = p THEN NoProc ELSE h

LockGranted_nolock(h) == TRUE

\* flock(LOCK_EX) returns once no other open file holds the lock.
LockGranted(h) == h = NoProc

BytesEq(b, s) == ~py3 /\ b = s

\* first_line != '' and first_line[:5] != magic
FormatMismatch(first_line, fmt) ==
    ~BytesEq(first_line, <<>>) /\ ~BytesEq(Take(first_line, 5), Magic(fmt))

StepExc(l) == IF l \in {"fstat_old", "fsync", "fstat_new", "utime"} THEN "OSError" ELSE "IOError"

DeliverInit ==
    /\ ParseIdle
    /\ MaildirIdle
    /\ py3 \in BOOLEAN
    /\ purged = [p \in Procs |-> FALSE]
    /\ file \in FileInits
    /\ file0 = file /\ appendMtime = 0
    /\ atime = 0 /\ mtime = 0 /\ clock = 1
    /\ lockHolder = NoProc /\ faults = 0
    /\ pc = [p \in Procs |-> "start"]
    /\ opt \in [Procs -> DeliverOptions]
    /\ boxtype = [p \in Procs |-> None]
    /\ dest = [p \in Procs |-> <<>>]
    /\ message = [p \in Procs |-> <<>>]
    /\ fp = [p \in Procs |-> "unbound"]
    /\ pos = [p \in Procs |-> 0]
    /\ orig_length = [p \in Procs |-> 0 - 1]
    /\ status_old = [p \in Procs |-> <<0, 0>>]
    /\ status_new = [p \in Procs |-> <<0, 0>>]
    /\ todo = [p \in Procs |-> <<>>]
    /\ exc = [p \in Procs |-> "none"]
    /\ err = [p \in Procs |-> "none"]
    /\ failAt = [p \in Procs |-> "none"]
    /\ hfail = [p \in Procs |-> "none"]
    /\ snap = [p \in Procs |-> <<>>]
    /\ retFile = [p \in Procs |-> <<>>]

add_from_noprogram(bt) == bt \in {"mmdf", "mbox"}

\* escape_from = boxtype in ('mmdf', 'mbox')
escape_from(bt) == bt \in {"mmdf", "mbox"}

\* add_from_ = boxtype in ('program', 'mmdf', 'mbox')
add_from_(bt) == bt \in {"program", "mmdf", "mbox"}

\* deliver(): header purge, parse, precondition checks, serialization mode,
\* dispatch.
Deliver(p) ==
    /\ pc[p] = "start"
    /\ purged' = Upd(purged, p, TRUE)
    /\ LET r == get_instructions(opt[p])
           bt == r.kind
           d == r.dest
       IN  /\ boxtype' = Upd(boxtype, p, bt)
           /\ dest' = Upd(dest, p, d)
           /\ IF r.exc # "none"
              THEN Finish(p, r.exc, "is not recognized", file) /\ UNCHANGED message
              ELSE IF bt \in {"mmdf", "mbox", "maildir"} /\ ~exists(d)
              THEN Finish(p, "DeliveryError", "does not exist", file) /\ UNCHANGED message
              ELSE IF bt \in {"mmdf", "mbox"} /\ islink(d)
              THEN Finish(p, "DeliveryError", "is a symlink", file) /\ UNCHANGED message
              ELSE /\ message' = Upd(message, p,
                                     msg_as_string(Body(p), escape_from(bt), add_from_(bt)))
                   /\ Goto(p, IF bt \in {"mmdf", "mbox"} THEN "open"
                               ELSE IF bt = "maildir" THEN "maildir" ELSE "external")
    /\ UNCHANGED <<pvars, mvars, py3, file0, appendMtime, fsvars, opt, fp, pos, orig_length,
                   status_old, status_new, todo, hfail, snap>>

\* deliver(msg, dest) for program, forward and filter: Util.runcmd_checked,
\* Util.sendmail, sys.stdout.write get the serialized message.
External(p) ==
    /\ pc[p] = "external"
    /\ Finish(p, "none", "none", file)
    /\ UNCHANGED <<pvars, mvars, env, appendMtime, fsvars, opt, boxtype, dest, message, fp, pos,
                   orig_length, status_old, status_new, todo, hfail, snap>>

\* fp = open(mbox, 'rb+')
Open(p) ==
    /\ pc[p] = "open"
    /\ IF exists(dest[p]) /\ ~isdir(dest[p])
       THEN fp' = Upd(fp, p, "open") /\ pos' = Upd(pos, p, 0) /\ Goto(p, "lock")
       ELSE Throw(p, "open", "IOError", file) /\ UNCHANGED <<fp, pos>>
    /\ UNCHANGED <<pvars, mvars, env, appendMtime, fsvars, opt, boxtype, dest, message, orig_length,
                   status_old, status_new, todo, hfail, snap>>

\* lock_file(fp)
Lock(p) ==
    /\ pc[p] = "lock"
    /\ LockGranted(lockHolder)
    /\ lockHolder' = p
    /\ snap' = Upd(snap, p, file)
    /\ Goto(p, "fstat_old")
    /\ UNCHANGED <<pvars, mvars, env, appendMtime, file, atime, mtime, clock, lvars, hfail>>

\* status_old = os.fstat(fp.fileno())
FstatOld(p) ==
    /\ pc[p] = "fstat_old"
    /\ status_old' = Upd(status_old, p, <<atime, mtime>>)
    /\ Goto(p, "readline")
    /\ UNCHANGED <<pvars, mvars, env, appendMtime, fsvars, opt, boxtype, dest, message, fp, pos,
                   orig_length, status_new, todo, hfail, snap>>

\* fp.seek(0, 0); first_line = fp.readline(); the format test.
ReadFirstLine(p) ==
    /\ pc[p] = "readline"
    /\ LET first_line == readline(file)
       IN  /\ pos' = Upd(pos, p, Len(first_line))
           /\ Goto(p, IF FormatMismatch(first_line, boxtype[p]) THEN "mm_unlock" ELSE "seek_end")
    /\ atime' = clock
    /\ clock' = clock + 1
    /\ UNCHANGED <<pvars, mvars, env, appendMtime, file, mtime, lockHolder, opt, boxtype, dest, message,
                   fp, orig_length, status_old, status_new, todo, hfail, snap>>

\* Format mismatch: unlock_file(fp)
MismatchUnlock(p) ==
    /\ pc[p] = "mm_unlock"
    /\ lockHolder' = Released(lockHolder, p)
    /\ GotoRel(p, "mm_close")
    /\ UNCHANGED <<pvars, mvars, env, appendMtime, file, atime, mtime, clock, lvars, hfail, snap>>

\* Format mismatch: fp.close(); raise DeliveryError (not an IOError).
MismatchClose(p) ==
    /\ pc[p] = "mm_close"
    /\ fp' = Upd(fp, p, "closed")
    /\ lockHolder' = Released(lockHolder, p)
    /\ Finish(p, "DeliveryError", "is not a file of this format", file)
    /\ UNCHANGED <<pvars, mvars, env, appendMtime, file, atime, mtime, clock, opt, boxtype, dest, message,
                   pos, orig_length, status_old, status_new, todo, hfail, snap>>

\* fp.seek(0, 2); orig_length = fp.tell()
SeekEnd(p) ==
    /\ pc[p] = "seek_end"
    /\ pos' = Upd(pos, p, Len(file))
    /\ orig_length' = Upd(orig_length, p, Len(file))
    /\ todo' = Upd(todo, p, Chunks(boxtype[p], message[p]))
    /\ Goto(p, "write")
    /\ UNCHANGED <<pvars, mvars, env, appendMtime, fsvars, opt, boxtype, dest, message, fp,
                   status_old, status_new, hfail, snap>>

\* One fp.write(...) call.  A str written to a file opened 'rb+' is a
\* TypeError under Python 3, which "except IOError" does not catch.
Write(p) ==
    /\ pc[p] = "write"
    /\ IF py3
       THEN /\ Finish(p, "TypeError", "write", file)
            /\ UNCHANGED <<file, mtime, clock, pos, todo, appendMtime>>
       ELSE LET chunk == Head(todo[p])
            IN  /\ file' = WriteAt(file, pos[p], chunk)
                /\ appendMtime' = IF Tail(todo[p]) = <<>> THEN clock ELSE appendMtime
                /\ pos' = Upd(pos, p, pos[p] + Len(chunk))
                /\ mtime' = clock
                /\ clock' = clock + 1
                /\ todo' = Upd(todo, p, Tail(todo[p]))
                /\ Goto(p, IF Tail(todo[p]) = <<>> THEN "flush" ELSE "write")
    /\ UNCHANGED <<pvars, mvars, env, atime, lockHolder, opt, boxtype, dest, message, fp,
                   orig_length, status_old, status_new, hfail, snap>>

\* An fp.write(...) call fails after k bytes of its data reached the file.
WriteFail(p) ==
    /\ pc[p] = "write"
    /\ ~py3
    /\ faults < MaxFaults
    /\ \E k \in 0..(Len(Head(todo[p])) - 1) :
          /\ file' = WriteAt(file, pos[p], Take(Head(todo[p]), k))
          /\ pos' = Upd(pos, p, pos[p] + k)
          /\ mtime' = IF k > 0 THEN clock ELSE mtime
          /\ clock' = IF k > 0 THEN clock + 1 ELSE clock
          /\ Throw(p, "write", "IOError", WriteAt(file, pos[p], Take(Head(todo[p]), k)))
    /\ UNCHANGED <<pvars, mvars, env, appendMtime, atime, lockHolder, opt, boxtype, dest, message, fp,
                   orig_length, status_old, status_new, todo, hfail, snap>>

\* fp.flush()
Flush(p) ==
    /\ pc[p] = "flush"
    /\ Goto(p, "fsync")
    /\ UNCHANGED <<pvars, mvars, env, appendMtime, fsvars, lvars, hfail, snap>>

\* os.fsync(fp.fileno())
Fsync(p) ==
    /\ pc[p] = "fsync"
    /\ Goto(p, "fstat_new")
    /\ UNCHANGED <<pvars, mvars, env, appendMtime, fsvars, lvars, hfail, snap>>

\* status_new = os.fstat(fp.fileno())
FstatNew(p) ==
    /\ pc[p] = "fstat_new"
    /\ status_new' = Upd(status_new, p, <<atime, mtime>>)
    /\ Goto(p, "unlock")
    /\ UNCHANGED <<pvars, mvars, env, appendMtime, fsvars, opt, boxtype, dest, message, fp, pos,
                   orig_length, status_old, todo, hfail, snap>>

\* unlock_file(fp)
Unlock(p) ==
    /\ pc[p] = "unlock"
    /\ lockHolder' = Released(lockHolder, p)
    /\ GotoRel(p, "close")
    /\ UNCHANGED <<pvars, mvars, env, appendMtime, file, atime, mtime, clock, lvars, hfail, snap>>

\* fp.close()
Close(p) ==
    /\ pc[p] = "close"
    /\ fp' = Upd(fp, p, "closed")
    /\ lockHolder' = Released(lockHolder, p)
    /\ Goto(p, "utime")
    /\ UNCHANGED <<pvars, mvars, env, appendMtime, file, atime, mtime, clock, opt, boxtype, dest, message,
                   pos, orig_length, status_old, status_new, todo, hfail, snap>>

\* os.utime(mbox, (status_old[ST_ATIME], status_new[ST_MTIME]))
Utime(p) ==
    /\ pc[p] = "utime"
    /\ atime' = status_old[p][1]
    /\ mtime' = status_new[p][2]
    /\ Finish(p, "none", "none", file)
    /\ UNCHANGED <<pvars, mvars, env, appendMtime, file, clock, lockHolder, opt, boxtype, dest, message, fp, pos, orig_length,
                   status_old, status_new, todo, hfail, snap>>

\* A system call of the try body fails without touching the file:
\* flock, fstat, seek/readline/tell, flush, fsync, utime.
FailSyscall(p) ==
    /\ pc[p] \in {"lock", "fstat_old", "readline", "mm_unlock", "seek_end",
                  "flush", "fsync", "fstat_new", "unlock", "utime"}
    /\ faults < MaxFaults
    /\ Throw(p, pc[p], StepExc(pc[p]), file)
    /\ UNCHANGED <<pvars, mvars, env, appendMtime, fsvars, opt, boxtype, dest, message, fp, pos,
                   orig_length, status_old, status_new, todo, hfail, snap>>

\* fp.close() raises: the file object is closed all the same.
CloseFail(p) ==
    /\ pc[p] \in {"close", "mm_close"}
    /\ faults < MaxFaults
    /\ fp' = Upd(fp, p, "closed")
    /\ lockHolder' = Released(lockHolder, p)
    /\ Throw(p, pc[p], "IOError", file)
    /\ UNCHANGED <<pvars, mvars, env, appendMtime, file, atime, mtime, clock, opt, boxtype, dest, message,
                   pos, orig_length, status_old, status_new, todo, hfail, snap>>

\* except IOError: "if not fp.closed and not orig_length is None:
\* fp.truncate(orig_length)".  With fp unbound (open() failed) fp.closed is
\* a NameError, swallowed by the bare except.
RollbackTruncate(p) ==
    /\ pc[p] = "h_truncate"
    /\ IF fp[p] = "unbound"
       THEN Swallow(p, file, 0) /\ UNCHANGED <<file, mtime, clock>>
       ELSE IF fp[p] = "open" /\ orig_length[p] # 0 - 1
       THEN /\ file' = truncate(file, orig_length[p])
            /\ mtime' = clock
            /\ clock' = clock + 1
            /\ Goto(p, "h_unlock")
       ELSE Goto(p, "h_unlock") /\ UNCHANGED <<file, mtime, clock>>
    /\ UNCHANGED <<pvars, mvars, env, appendMtime, atime, lockHolder, opt, boxtype, dest, message, fp, pos,
                   orig_length, status_old, status_new, todo, hfail, snap>>

\* fp.truncate(orig_length) raises: "except: pass" skips unlock_file and
\* fp.close().
RollbackTruncateFail(p) ==
    /\ pc[p] = "h_truncate"
    /\ fp[p] = "open" /\ orig_length[p] # 0 - 1
    /\ faults < MaxFaults
    /\ hfail' = Upd(hfail, p, "truncate")
    /\ Swallow(p, file, 1)
    /\ UNCHANGED <<pvars, mvars, env, appendMtime, fsvars, opt, boxtype, dest, message, fp, pos,
                   orig_length, status_old, status_new, todo, snap>>

\* Handler: unlock_file(fp).  On a closed file fp.fileno() is a ValueError,
\* swallowed.
RollbackUnlock(p) ==
    /\ pc[p] = "h_unlock"
    /\ IF fp[p] = "closed"
       THEN Swallow(p, file, 0) /\ UNCHANGED lockHolder
       ELSE lockHolder' = Released(lockHolder, p) /\ GotoRel(p, "h_close")
    /\ UNCHANGED <<pvars, mvars, env, appendMtime, file, atime, mtime, clock, opt, boxtype, dest, message,
                   fp, pos, orig_length, status_old, status_new, todo, hfail, snap>>

\* Handler: unlock_file(fp) raises: fp.close() is skipped.
RollbackUnlockFail(p) ==
    /\ pc[p] = "h_unlock"
    /\ fp[p] = "open"
    /\ faults < MaxFaults
    /\ hfail' = Upd(hfail, p, "unlock")
    /\ Swallow(p, file, 1)
    /\ UNCHANGED <<pvars, mvars, env, appendMtime, fsvars, opt, boxtype, dest, message, fp, pos,
                   orig_length, status_old, status_new, todo, snap>>

\* Handler: fp.close(), then raise DeliveryError.  A failing close is
\* swallowed and leaves the file object closed as well.
RollbackClose(p) ==
    /\ pc[p] = "h_close"
    /\ fp' = Upd(fp, p, "closed")
    /\ lockHolder' = Released(lockHolder, p)
    /\ Swallow(p, file, 0)
    /\ UNCHANGED <<pvars, mvars, env, appendMtime, file, atime, mtime, clock, opt, boxtype, dest, message,
                   pos, orig_length, status_old, status_new, todo, hfail, snap>>

\* A file object left open when the call ended is closed when the
\* interpreter drops it or the process exits; closing the descriptor gives
\* up its flock.
Reclaim(p) ==
    /\ pc[p] = "done"
    /\ fp[p] = "open"
    /\ fp' = Upd(fp, p, "closed")
    /\ lockHolder' = Released(lockHolder, p)
    /\ UNCHANGED <<pvars, mvars, env, appendMtime, file, atime, mtime, clock, faults, pc, opt, boxtype,
                   dest, message, pos, orig_length, status_old, status_new, todo,
                   exc, err, gvars>>

DeliverNext ==
    \/ \E p \in Procs : Deliver(p)
    \/ \E p \in Procs : External(p)
    \/ \E p \in Procs : Open(p)
    \/ \E p \in Procs : Lock(p)
    \/ \E p \in Procs : FstatOld(p)
    \/ \E p \in Procs : ReadFirstLine(p)
    \/ \E p \in Procs : MismatchUnlock(p)
    \/ \E p \in Procs : MismatchClose(p)
    \/ \E p \in Procs : SeekEnd(p)
    \/ \E p \in Procs : Write(p)
    \/ \E p \in Procs : WriteFail(p)
    \/ \E p \in Procs : Flush(p)
    \/ \E p \in Procs : Fsync(p)
    \/ \E p \in Procs : FstatNew(p)
    \/ \E p \in Procs : Unlock(p)
    \/ \E p \in Procs : Close(p)
    \/ \E p \in Procs : Utime(p)
    \/ \E p \in Procs : FailSyscall(p)
    \/ \E p \in Procs : CloseFail(p)
    \/ \E p \in Procs : RollbackTruncate(p)
    \/ \E p \in Procs : RollbackTruncateFail(p)
    \/ \E p \in Procs : RollbackUnlock(p)
    \/ \E p \in Procs : RollbackUnlockFail(p)
    \/ \E p \in Procs : RollbackClose(p)
    \/ \E p \in Procs : Reclaim(p)

Spec == DeliverInit /\ [][DeliverNext]_vars

\* ------------------------------------------------------ __deliver_maildir
\* File names: tmp/<now>.P<pid>.<host> is <<now, pid>>, and
\* new/<now>.V<dev>I<ino>.<host> is <<now, ino>> (one host, one device).
\* A directory is a set of entries; an inode is free when nlink = 0.
MaxCalls == 2
MaxTime == 2
NumInodes == 3

dRest == <<env, appendMtime, fsvars, pc, lvars, gvars>>

\* The message argument of __deliver_maildir, one per process.
MdMessage(p) == IF p = 1 THEN <<"x", "a">> ELSE <<"x", "b", NL>>

Collider == [name |-> <<1, 1>>, ino |-> NumInodes, msg |-> <<"o">>]

FreeInodes == {i \in 1..NumInodes : inodes[i].nlink = 0}

MinOf(S) == CHOOSE i \in S : \A j \in S : i <= j

TmpIno(name) == (CHOOSE e \in tmpdir : e.name = name).ino

filename_tmp_nopid(t, pid) == <<t, 0>>

\* filename_tmp = '%lu.P%d.%s' % (now, pid, hostname)
filename_tmp(t, pid) == <<t, pid>>

\* filename_new = '%lu.V%lxI%lx.%s' % (now, dev, ino, hostname)
filename_new(t, ino) == <<t, ino>>

tmp_exists_skipped(name) == FALSE

\* os.path.exists(fname_tmp)
tmp_exists(name) == \E e \in tmpdir : e.name = name

\* os.path.exists(fname_new)
new_exists(name) == \E e \in newdir : e.name = name

MGoto(p, l) ==
    /\ mpc' = Upd(mpc, p, l)
    /\ UNCHANGED <<mexc, merr>>

MEnd(p, e, cause) ==
    /\ mpc' = Upd(mpc, p, "done")
    /\ mexc' = Upd(mexc, p, e)
    /\ merr' = Upd(merr, p, cause)

MaildirInit ==
    /\ ParseIdle
    /\ DeliverIdle
    /\ py3 \in BOOLEAN
    /\ isMaildir \in BOOLEAN
    /\ tmpdir = {}
    /\ newdir \in {{}, {Collider}}
    /\ inodes = [i \in 1..NumInodes |->
                   IF \E e \in newdir : e.ino = i
                   THEN [content |-> <<"o">>, nlink |-> 1]
                   ELSE [content |-> <<>>, nlink |-> 0]]
    /\ wall = 1
    /\ calls = 0
    /\ mpc = [p \in Procs |-> "m_start"]
    /\ now = [p \in Procs |-> 0]
    /\ fname_tmp = [p \in Procs |-> <<>>]
    /\ fname_new = [p \in Procs |-> <<>>]
    /\ alarm = [p \in Procs |-> FALSE]
    /\ mexc = [p \in Procs |-> "none"]
    /\ merr = [p \in Procs |-> "none"]

\* signal.alarm(24h); the tmp/cur/new test; now, pid; the tmp-name test;
\* s_maildir = os.stat(maildir).
MdBegin(p) ==
    /\ mpc[p] = "m_start"
    /\ calls < MaxCalls
    /\ calls' = calls + 1
    /\ alarm' = Upd(alarm, p, TRUE)
    /\ IF ~isMaildir
       THEN MEnd(p, "DeliveryError", "not a Maildir") /\ UNCHANGED <<now, fname_tmp>>
       ELSE /\ now' = Upd(now, p, wall)
            /\ fname_tmp' = Upd(fname_tmp, p, filename_tmp(wall, p))
            /\ IF tmp_exists(filename_tmp(wall, p))
               THEN MEnd(p, "DeliveryError", "tmp already exists")
               ELSE MGoto(p, "m_open")
    /\ fname_new' = Upd(fname_new, p, <<>>)
    /\ UNCHANGED <<pvars, dvars, mfs>>

\* open(fname_tmp, 'w'): creates the file, or truncates an existing one.
\* Without a free inode the open fails and the except clause runs.
MdOpen(p) ==
    /\ mpc[p] = "m_open"
    /\ IF \E e \in tmpdir : e.name = fname_tmp[p]
       THEN /\ inodes' = [inodes EXCEPT ![TmpIno(fname_tmp[p])].content = <<>>]
            /\ MGoto(p, "m_write")
            /\ UNCHANGED <<tmpdir, alarm>>
       ELSE IF FreeInodes # {}
       THEN /\ inodes' = [inodes EXCEPT ![MinOf(FreeInodes)] = [content |-> <<>>, nlink |-> 1]]
            /\ tmpdir' = tmpdir \cup {[name |-> fname_tmp[p], ino |-> MinOf(FreeInodes)]}
            /\ MGoto(p, "m_write")
            /\ UNCHANGED alarm
       ELSE /\ alarm' = Upd(alarm, p, FALSE)
            /\ MEnd(p, "DeliveryError", "Failure writing file")
            /\ UNCHANGED <<tmpdir, inodes>>
    /\ UNCHANGED <<pvars, dvars, isMaildir, newdir, wall, calls, now, fname_tmp, fname_new>>

\* f.write(message); f.flush(); os.fsync(f.fileno()); close;
\* os.chmod(fname_tmp, 0o600); os.chown(...) with its OSError ignored.
MdWrite(p) ==
    /\ mpc[p] = "m_write"
    /\ inodes' = [inodes EXCEPT ![TmpIno(fname_tmp[p])].content = MdMessage(p)]
    /\ MGoto(p, "m_stat")
    /\ UNCHANGED <<pvars, dvars, isMaildir, tmpdir, newdir, wall, calls, now, fname_tmp,
                   fname_new, alarm>>

\* The write fails after k bytes, or (k = len) os.chmod fails after the
\* whole write: except clause, alarm(0), DeliveryError.
MdWriteFail(p) ==
    /\ mpc[p] = "m_write"
    /\ faults < MaxFaults
    /\ faults' = faults + 1
    /\ \E k \in 0..Len(MdMessage(p)) :
          inodes' = [inodes EXCEPT ![TmpIno(fname_tmp[p])].content = Take(MdMessage(p), k)]
    /\ alarm' = Upd(alarm, p, FALSE)
    /\ MEnd(p, "DeliveryError", "Failure writing file")
    /\ UNCHANGED <<pvars, dRest, isMaildir, tmpdir, newdir, wall, calls, now, fname_tmp,
                   fname_new>>

\* open() raises inside the try: alarm(0), DeliveryError.
MdFailCaught(p) ==
    /\ mpc[p] = "m_open"
    /\ faults < MaxFaults
    /\ faults' = faults + 1
    /\ alarm' = Upd(alarm, p, FALSE)
    /\ MEnd(p, "DeliveryError", "Failure writing file")
    /\ UNCHANGED <<pvars, dRest, mfs, calls, now, fname_tmp, fname_new>>

\* os.stat(maildir) or os.stat(fname_tmp) raises OSError outside any try.
MdFailEscape(p) ==
    /\ mpc[p] \in {"m_open", "m_stat"}
    /\ faults < MaxFaults
    /\ faults' = faults + 1
    /\ MEnd(p, "OSError", mpc[p])
    /\ UNCHANGED <<pvars, dRest, mfs, calls, now, fname_tmp, fname_new, alarm>>

\* fstatus = os.stat(fname_tmp); the final name; the final-name test.
MdStat(p) ==
    /\ mpc[p] = "m_stat"
    /\ fname_new' = Upd(fname_new, p, filename_new(now[p], TmpIno(fname_tmp[p])))
    /\ IF new_exists(filename_new(now[p], TmpIno(fname_tmp[p])))
       THEN MEnd(p, "DeliveryError", "new already exists")
       ELSE MGoto(p, "m_link")
    /\ UNCHANGED <<pvars, dvars, mfs, calls, now, fname_tmp, alarm>>

\* os.link(fname_tmp, fname_new); EEXIST when the name is taken.
MdLink(p) ==
    /\ mpc[p] = "m_link"
    /\ IF new_exists(fname_new[p])
       THEN /\ alarm' = Upd(alarm, p, FALSE)
            /\ MGoto(p, "m_h_unlink")
            /\ UNCHANGED <<newdir, inodes>>
       ELSE /\ newdir' = newdir \cup {[name |-> fname_new[p], ino |-> TmpIno(fname_tmp[p]),
                                       msg |-> MdMessage(p)]}
            /\ inodes' = [inodes EXCEPT ![TmpIno(fname_tmp[p])].nlink = @ + 1]
            /\ MGoto(p, "m_unlink")
            /\ UNCHANGED alarm
    /\ UNCHANGED <<pvars, dvars, isMaildir, tmpdir, wall, calls, now, fname_tmp, fname_new>>

\* os.unlink(fname_tmp); alarm(0); signal(SIGALRM, SIG_DFL); return.
MdUnlink(p) ==
    /\ mpc[p] = "m_unlink"
    /\ tmpdir' = {e \in tmpdir : e.name # fname_tmp[p]}
    /\ inodes' = [inodes EXCEPT ![TmpIno(fname_tmp[p])].nlink = @ - 1]
    /\ alarm' = Upd(alarm, p, FALSE)
    /\ MEnd(p, "none", "none")
    /\ UNCHANGED <<pvars, dvars, isMaildir, newdir, wall, calls, now, fname_tmp, fname_new>>

\* os.link or os.unlink raises OSError: the except clause does alarm(0).
MdRenameFail(p) ==
    /\ mpc[p] \in {"m_link", "m_unlink"}
    /\ faults < MaxFaults
    /\ faults' = faults + 1
    /\ alarm' = Upd(alarm, p, FALSE)
    /\ MGoto(p, "m_h_unlink")
    /\ UNCHANGED <<pvars, dRest, mfs, calls, now, fname_tmp, fname_new>>

\* except OSError: try os.unlink(fname_tmp); raise DeliveryError.
MdHandlerUnlink(p) ==
    /\ mpc[p] = "m_h_unlink"
    /\ tmpdir' = {e \in tmpdir : e.name # fname_tmp[p]}
    /\ inodes' = [inodes EXCEPT ![TmpIno(fname_tmp[p])].nlink = @ - 1]
    /\ MEnd(p, "DeliveryError", "failure renaming")
    /\ UNCHANGED <<pvars, dvars, isMaildir, newdir, wall, calls, now, fname_tmp, fname_new,
                   alarm>>

\* The handler's os.unlink raises too: "except: pass", raise DeliveryError.
MdHandlerUnlinkFail(p) ==
    /\ mpc[p] = "m_h_unlink"
    /\ faults < MaxFaults
    /\ faults' = faults + 1
    /\ MEnd(p, "DeliveryError", "failure renaming")
    /\ UNCHANGED <<pvars, dRest, mfs, calls, now, fname_tmp, fname_new, alarm>>

\* The 24-hour alarm goes off during the call: alarm_handler raises IOError.
\* Inside the first try it is caught (alarm(0), DeliveryError); at the stat
\* of the tmp file no handler is in scope; "except OSError" around link and
\* unlink catches it only where IOError is OSError.
MdAlarm(p) ==
    /\ alarm[p]
    /\ mpc[p] \in {"m_open", "m_write", "m_stat", "m_link", "m_unlink"}
    /\ faults < MaxFaults
    /\ faults' = faults + 1
    /\ alarm' = Upd(alarm, p, FALSE)
    /\ IF mpc[p] \in {"m_open", "m_write"}
       THEN MEnd(p, "DeliveryError", "Failure writing file")
       ELSE IF mpc[p] \in {"m_link", "m_unlink"} /\ py3
       THEN MGoto(p, "m_h_unlink")
       ELSE MEnd(p, "IOError", "alarm")
    /\ UNCHANGED <<pvars, dRest, mfs, calls, now, fname_tmp, fname_new>>

\* The same process delivers another message.
MdAgain(p) ==
    /\ mpc[p] = "done"
    /\ calls < MaxCalls
    /\ mpc' = Upd(mpc, p, "m_start")
    /\ mexc' = Upd(mexc, p, "none")
    /\ merr' = Upd(merr, p, "none")
    /\ UNCHANGED <<pvars, dvars, mfs, calls, now, fname_tmp, fname_new, alarm>>

\* time.time() moves on to the next second.  The clock is read only at the
\* start of a call, so its advance is taken while a call is about to start.
Tick ==
    /\ wall < MaxTime
    /\ \E p \in Procs : mpc[p] = "m_start"
    /\ wall' = wall + 1
    /\ UNCHANGED <<pvars, dvars, isMaildir, tmpdir, newdir, inodes, mloc>>

MaildirNext ==
    \/ \E p \in Procs : MdBegin(p)
    \/ \E p \in Procs : MdOpen(p)
    \/ \E p \in Procs : MdWrite(p)
    \/ \E p \in Procs : MdWriteFail(p)
    \/ \E p \in Procs : MdFailCaught(p)
    \/ \E p \in Procs : MdFailEscape(p)
    \/ \E p \in Procs : MdStat(p)
    \/ \E p \in Procs : MdLink(p)
    \/ \E p \in Procs : MdUnlink(p)
    \/ \E p \in Procs : MdRenameFail(p)
    \/ \E p \in Procs : MdHandlerUnlink(p)
    \/ \E p \in Procs : MdHandlerUnlinkFail(p)
    \/ \E p \in Procs : MdAlarm(p)
    \/ \E p \in Procs : MdAgain(p)
    \/ Tick

SpecMaildir == MaildirInit /\ [][MaildirNext]_vars

\* ================================================================ claims
PrecheckErrors == {"is not recognized", "does not exist", "is a symlink"}

\* p's call took the lock before it ended.
HadLock(p) ==
    /\ pc[p] = "done"
    /\ boxtype[p] \in {"mbox", "mmdf"}
    /\ err[p] \notin PrecheckErrors
    /\ failAt[p] \notin {"open", "lock"}

Framed(p) == Concat(Chunks(boxtype[p], message[p]))

Prefixes(s) == {Take(s, k) : k \in 0..Len(s)}

Writers == {p \in Procs : pc[p] = "done" /\ message[p] # <<>> /\ boxtype[p] \in {"mbox", "mmdf"}}

Orders(S) ==
    {o \in UNION {[1..n -> S] : n \in 0..Cardinality(S)} :
        \A i, j \in 1..Len(o) : i # j => o[i] # o[j]}

InCS(p) ==
    \/ pc[p] \in {"fstat_old", "readline", "mm_unlock", "seek_end", "write",
                  "flush", "fsync", "fstat_new", "unlock"}
    \/ /\ pc[p] \in {"h_truncate", "h_unlock"}
       /\ failAt[p] \notin {"open", "lock", "close", "mm_close", "utime"}

MutualExclusion == \A p, q \in Procs : (p # q) => ~(InCS(p) /\ InCS(q))

AllDone == \A p \in Procs : pc[p] = "done"

Segments(p) ==
    IF hfail[p] = "truncate" THEN Prefixes(Framed(p)) ELSE {<<>>, Framed(p)}

C3_Original ==
    \A p \in Procs : pc[p] = "done" => (lockHolder # p /\ fp[p] # "open")

\* C5 (as stated): a call that returned normally left the complete framed
\* message behind; a call that raised left the mailbox content as it was.
C5_Original ==
    \A p \in Procs :
        HadLock(p) =>
            IF exc[p] = "none" THEN retFile[p] = snap[p] \o Framed(p)
            ELSE retFile[p] = snap[p]

\* C6 (as stated): when a delivery returns successfully the access time is
\* the one the file had when the delivery took the lock and the modification
\* time is the one produced by the most recent completed append.
C6_Original ==
    [][\A p \in Procs :
          (pc[p] = "utime" /\ pc'[p] = "done" /\ exc'[p] = "none")
          => (atime' = status_old[p][1] /\ mtime' = appendMtime')]_vars

Rejectable(p) ==
    LET r == get_instructions(opt[p])
    IN  /\ r.kind \in {"mbox", "mmdf"}
        /\ (r.dest \notin ExistingPaths \/ r.dest \in SymlinkPaths)

\* C7: a deliver() call whose mbox/mmdf destination is missing or is a
\* symbolic link ends in its first step with a delivery error naming the
\* path, without opening the file and without changing the filesystem.
C7_Precheck ==
    [][\A p \in Procs :
          (Rejectable(p) /\ pc[p] = "start" /\ pc'[p] # "start")
          => /\ pc'[p] = "done" /\ exc'[p] = "DeliveryError"
             /\ err'[p] \in {"does not exist", "is a symlink"}
             /\ dest'[p] = get_instructions(opt[p]).dest
             /\ fp'[p] = "unbound"
             /\ UNCHANGED fsvars]_vars

C7_Witness ==
    \E p, q \in Procs :
        /\ pc[p] = "done" /\ err[p] = "is a symlink" /\ dest[p] = Lnk /\ fp[p] = "unbound"
        /\ pc[q] = "done" /\ err[q] = "does not exist" /\ fp[q] = "unbound"

\* C10 (as stated): an append to an existing empty file, with no I/O
\* failure, succeeds and leaves exactly the framed message, whose first line
\* begins with the format magic.
C10_Original ==
    \A p \in Procs :
        (HadLock(p) /\ snap[p] = <<>> /\ failAt[p] = "none" /\ hfail[p] = "none")
        => /\ exc[p] = "none"
           /\ retFile[p] = Framed(p)
           /\ Take(readline(retFile[p]), 5) = Magic(boxtype[p])

\* The parse the claim describes: first-match rules on the trimmed string,
\* one leading "&" removed, Unrecognized for everything else.
ClaimedParse(o) ==
    LET t == strip(o)
        unrecognized == [exc |-> "DeliveryError", kind |-> None, dest |-> o]
    IN  IF t = <<>> THEN unrecognized
        ELSE IF t[1] = "|"
             THEN [exc |-> "none", kind |-> "program", dest |-> strip(Drop(t, 1))]
        ELSE IF t[1] = "&"
             THEN [exc |-> "none", kind |-> "forward", dest |-> strip(Drop(t, 1))]
        ELSE IF isalnum(t[1])
             THEN [exc |-> "none", kind |-> "forward", dest |-> t]
        ELSE IF t[1] = ":"
             THEN [exc |-> "none", kind |-> "mmdf", dest |-> expanduser(strip(Drop(t, 1)))]
        ELSE IF t[1] \in {"/", "~"}
             THEN [exc |-> "none", kind |-> "mbox", dest |-> expanduser(t)]
        ELSE IF t = Filter_
             THEN [exc |-> "none", kind |-> "filter", dest |-> Stdout]
        ELSE unrecognized

\* C8 (as stated): for every instruction string, the empty one included, the
\* parser yields the pair of the first matching rule applied to the trimmed
\* string, or the delivery error naming the instruction.
C8_Original == ppc = "done" => presult = ClaimedParse(option)

C4_NewComplete == \A e \in newdir : inodes[e.ino].content = e.msg

C4_Witness ==
    \E p, q \in Procs :
        /\ mpc[p] = "done" /\ mexc[p] = "none"
        /\ \E e \in newdir : e.name = fname_new[p] /\ e.msg = MdMessage(p)
        /\ q # p /\ tmp_exists(fname_tmp[q])
        /\ inodes[TmpIno(fname_tmp[q])].content # MdMessage(q)

\* C11 (as stated): with no I/O failure, the format check rejects exactly
\* the files that are non-empty and whose first line does not begin with the
\* start marker; a rejected call has released the lock, closed the file and
\* left it unchanged; an empty file or a file that begins with the marker is
\* never rejected.
C11_Original ==
    \A p \in Procs :
        (HadLock(p) /\ failAt[p] = "none" /\ hfail[p] = "none")
        => LET bad == snap[p] # <<>> /\ Take(readline(snap[p]), 5) # Magic(boxtype[p])
           IN  /\ (err[p] = "is not a file of this format") <=> bad
               /\ bad => /\ exc[p] = "DeliveryError"
                         /\ lockHolder # p /\ fp[p] = "closed"
                         /\ retFile[p] = snap[p]

\* deliver() got past its precondition checks and serialized the message.
Dispatched(p) == pc[p] # "start" /\ ~(pc[p] = "done" /\ err[p] \in PrecheckErrors)

ExpectedMessage(p) ==
    IF boxtype[p] \in {"mbox", "mmdf"} THEN FromLine \o MangleFrom(Body(p), TRUE)
    ELSE IF boxtype[p] = "program" THEN FromLine \o Body(p)
    ELSE Body(p)

\* C17: the serialized message has escaped body lines exactly for mbox and
\* mmdf, an envelope line exactly for mbox, mmdf and program, neither for
\* forward and filter; the header purge has happened in every deliver() call,
\* the failing ones included.
C17_Serialization ==
    \A p \in Procs :
        /\ pc[p] # "start" => purged[p]
        /\ Dispatched(p) => message[p] = ExpectedMessage(p)
        /\ ~Dispatched(p) => message[p] = <<>>

C17_Witness ==
    /\ opt[1] = <<"|", "a">> /\ pc[1] = "done" /\ message[1] = FromLine \o Body(1)
    /\ opt[2] = Box /\ pc[2] = "done" /\ exc[2] = "none"
    /\ message[2] = FromLine \o <<">">> \o Body(2)
    /\ purged[1] /\ purged[2]

IsPrefix(a, b) == Len(a) <= Len(b) /\ Take(b, Len(a)) = a

HasNL(s) == \E i \in 1..Len(s) : s[i] = NL

C19_Original ==
    \A p \in Procs : pc[p] = "utime" => (lockHolder = p /\ fp[p] = "open")

C12_Original ==
    \A p \in Procs : mpc[p] = "done" => mexc[p] \in {"none", "DeliveryError"}

\* C13 (as stated): when a maildir delivery call has ended, on any path, the
\* alarm it armed is no longer pending.
C13_Original ==
    \A p \in Procs : mpc[p] = "done" => ~alarm[p]

\* The call of p that is in progress or has just ended made the link to its
\* final name.
Linked(p) ==
    \E e \in newdir : e.name = fname_new[p] /\ e.msg = MdMessage(p)

\* C14 (as stated): a maildir delivery call whose link succeeded returns
\* normally, whatever happens to the unlink of the temporary file.
C14_Original ==
    \A p \in Procs : (mpc[p] = "done" /\ Linked(p)) => mexc[p] = "none"

\* C15 (as stated): a maildir delivery call that failed after passing the
\* tmp-name test leaves neither its temporary file in tmp/ nor a link it
\* made in new/.
C15_Original ==
    \A p \in Procs :
        (mpc[p] = "done" /\ mexc[p] # "none"
            /\ merr[p] \notin {"not a Maildir", "tmp already exists"})
        => (~tmp_exists(fname_tmp[p]) /\ ~Linked(p))

\* p's call is between the creation of its temporary file and its end.
HasTmp(p) == mpc[p] \in {"m_write", "m_stat", "m_link", "m_unlink", "m_h_unlink"}

Started(p) == mpc[p] \in {"m_open", "m_write", "m_stat", "m_link", "m_unlink", "m_h_unlink"}

C16_State ==
    /\ \A p, q \in Procs :
          (p # q /\ Started(p) /\ Started(q)) => fname_tmp[p] # fname_tmp[q]
    /\ \A p, q \in Procs :
          (p # q /\ mpc[p] \in {"m_link", "m_unlink"} /\ mpc[q] \in {"m_link", "m_unlink"})
          => fname_new[p] # fname_new[q]
    /\ \A e, f \in newdir : e.name = f.name => e = f
    /\ \A p \in Procs :
          (mpc[p] = "done" /\ mexc[p] = "none")
          => \E e \in newdir : /\ e.name = fname_new[p] /\ e.msg = MdMessage(p)
                               /\ inodes[e.ino].content = MdMessage(p)

C16_Step ==
    \A p, q \in Procs :
        (p # q /\ mpc'[p] # mpc[p])
        => /\ HasTmp(q) =>
                 \E e \in tmpdir : /\ e.name = fname_tmp[q]
                                   /\ e \in tmpdir'
                                   /\ inodes'[e.ino] = inodes[e.ino]
           /\ \A e \in newdir : e \in newdir' /\ inodes'[e.ino].content = inodes[e.ino].content

\* C16: concurrent maildir deliveries by distinct processes use distinct
\* temporary names and distinct final names, no step of one delivery
\* overwrites, truncates or unlinks the temporary file of another or a file
\* in new/, and every delivery that returned normally has its complete file
\* in new/.
C16_NoInterference == []C16_State /\ [][C16_Step]_vars

C16_Witness ==
    /\ mpc[1] = "m_unlink" /\ mpc[2] = "m_unlink"
    /\ now[1] = now[2]
    /\ Linked(1) /\ Linked(2)
    /\ fname_new[1] # fname_new[2]

====
